---- MODULE Spec2Model ----
(***************************************************************************)
(* The Feddit sentiment microsite: GET /comments/{subfeddit} (app/main.py) *)
(* resolves the subfeddit name, pages through the remote comments, filters *)
(* them by time, enriches them with a sentiment and optionally sorts them. *)
(*                                                                         *)
(* One request is one sequential coroutine.  It is cut at its awaits: one  *)
(* action runs the code from the answer of one remote call up to the next  *)
(* remote call (or the response), and the for loop over a page is cut per  *)
(* comment so that the states inside the retrieval loop are visible.       *)
(*                                                                         *)
(* Python values: None is <<>> and an Optional[int] holding v is <<v>>;    *)
(* a str is a sequence of characters (titles) or of tokens (texts and      *)
(* messages); a float polarity is the integer 10^4 times its value.        *)
(***************************************************************************)
EXTENDS Integers, Sequences, FiniteSets, Bags, TLC

\* Bounds of the explored inputs.
MaxComments == 2
MaxTime == 1
MaxLimit == 2
MaxPageSize == 2
MaxForums == 2
MaxTitleLen == 2

VARIABLES
    forums,                  \* remote: the list "list forums" answers
    source,                  \* remote: the comments of the forum, in source order
    PAGE_SIZE,               \* app.config.PAGE_SIZE
    subfeddit,               \* request: the forum name
    limit,                   \* request: limit
    start,                   \* request: start, None or <<timestamp>>
    end,                     \* request: end, None or <<timestamp>>
    sort_by_polarity_score,  \* request: None, <<"asc">> or <<"desc">>
    pc,                      \* where the coroutine is suspended
    subfeddit_id,            \* get_comments: None until resolved
    skip,                    \* get_comments: the page cursor
    comments,                \* get_comments: the page being processed
    idx,                     \* get_comments: position of the for loop in the page
    collected_comments,      \* get_comments: the running result
    requests,                \* history: the cursors of the page requests made
    consumed,                \* history: positions of source the for loop looked at
    analyzed,                \* history: ids of the comments analyze_sentiment was called for
    stopped,                 \* history: why the while loop ended
    raised,                  \* history: the exception that reached the handler
    result,                  \* history: what get_comments returned, None or <<list>>
    response                 \* the HTTP response, None or <<[status, detail, body]>>

vars == <<forums, source, PAGE_SIZE, subfeddit, limit, start, end,
          sort_by_polarity_score, pc, subfeddit_id, skip, comments, idx,
          collected_comments, requests, consumed, analyzed, stopped, raised,
          result, response>>

None == <<>>

Some(v) == <<v>>

\* Python truthiness of an Optional[int]: None and 0 are falsy.
Truthy(x) == x # None /\ x[1] # 0

Min(a, b) == IF a <= b THEN a ELSE b

RECURSIVE Reverse(_)
Reverse(s) == IF s = <<>> THEN <<>> ELSE Append(Reverse(Tail(s)), Head(s))

----------------------------------------------------------------------------
(* app/sentiment.py *)

Whitespace == {" "}

RECURSIVE lstrip(_)
lstrip(text) ==
    IF text # <<>> /\ Head(text) \in Whitespace THEN lstrip(Tail(text)) ELSE text

\* str.strip(): leading and trailing whitespace removed.
strip(text) == Reverse(lstrip(Reverse(lstrip(text))))

\* VADER's lexicon valence of one token, and the compound score of a text:
\* the sign and size of the summed valences (10^4 times the compound).
Valence(token) ==
    CASE token = "good" -> 4404
      [] token = "bad" -> -5423
      [] OTHER -> 0

RECURSIVE polarity_scores(_)
polarity_scores(text) ==
    IF text = <<>> THEN 0
    ELSE LET s == Valence(Head(text)) + polarity_scores(Tail(text))
         IN  IF s > 10000 THEN 10000 ELSE IF s < -10000 THEN -10000 ELSE s

classify_sentiment(compound) ==
    IF compound > 0 THEN "positive" ELSE "negative"

\* The dict analyze_sentiment returns; its keys differ between the branches.
analyze_sentiment(text) ==
    IF text = <<>> \/ strip(text) = <<>>
    THEN [polarity |-> 0, sentiment |-> "negative"]
    ELSE LET compound == polarity_scores(text)
         IN  [polarity |-> compound,
              classification |-> classify_sentiment(compound)]

----------------------------------------------------------------------------
(* Exceptions and dict access *)

Exception(type, args) == [type |-> type, args |-> args]

\* str(e): the message, except for a KeyError, whose str is the repr of its key.
Str(e) ==
    IF e.type = "KeyError" THEN <<"'">> \o e.args \o <<"'">> ELSE e.args

\* d[key] where a missing key raises KeyError(key): <<exception>> or None.
KeyErrorOf(d, key) ==
    IF key \in DOMAIN d THEN None ELSE Some(Exception("KeyError", <<key>>))

----------------------------------------------------------------------------
(* app/feddit_client.py: the pure parts *)

is_within_time_range(comment, s, e) ==
    LET created_at == comment.created_at
    IN  IF Truthy(s) /\ created_at < s[1] THEN FALSE
        ELSE IF Truthy(e) /\ created_at > e[1] THEN FALSE
        ELSE TRUE

\* enrich_with_sentiment: [exc, value]; the dict literal reads "polarity" and then
\* "classification" of the sentiment, either of which may raise KeyError.
enrich_with_sentiment(comment) ==
    LET sentiment == analyze_sentiment(comment.text)
        e1 == KeyErrorOf(sentiment, "polarity")
        e2 == KeyErrorOf(sentiment, "classification")
    IN  IF e1 # None THEN [exc |-> e1, value |-> None]
        ELSE IF e2 # None THEN [exc |-> e2, value |-> None]
        ELSE [exc |-> None,
              value |-> Some([id |-> comment.id,
                              text |-> comment.text,
                              polarity |-> sentiment.polarity,
                              classification |-> sentiment.classification])]

\* Lines 111-114: every collected comment is analysed again and its polarity and
\* classification are overwritten.  [exc, value, calls], calls being the ids of
\* the comments analyze_sentiment was called for.
RECURSIVE reanalyze(_)
reanalyze(cs) ==
    IF cs = <<>> THEN [exc |-> None, value |-> <<>>, calls |-> <<>>]
    ELSE LET c == Head(cs)
             sentiment == analyze_sentiment(c.text)
             e1 == KeyErrorOf(sentiment, "polarity")
             e2 == KeyErrorOf(sentiment, "classification")
             rest == reanalyze(Tail(cs))
         IN  IF e1 # None THEN [exc |-> e1, value |-> <<>>, calls |-> <<c.id>>]
             ELSE IF e2 # None THEN [exc |-> e2, value |-> <<>>, calls |-> <<c.id>>]
             ELSE IF rest.exc # None
                  THEN [exc |-> rest.exc, value |-> <<>>,
                        calls |-> <<c.id>> \o rest.calls]
             ELSE [exc |-> None,
                   value |-> <<[id |-> c.id,
                                text |-> c.text,
                                polarity |-> sentiment.polarity,
                                classification |-> sentiment.classification]>>
                             \o rest.value,
                   calls |-> <<c.id>> \o rest.calls]

\* get_comments after the while loop (lines 108-119): [exc, value, calls].
NoMatchMessage == <<"No comments found matching the given criteria">>

after_loop(cs) ==
    IF cs = <<>>
    THEN [exc |-> Some(Exception("ValueError", NoMatchMessage)), value |-> None,
          calls |-> <<>>]
    ELSE LET r == reanalyze(cs)
         IN  IF r.exc # None THEN [exc |-> r.exc, value |-> None, calls |-> r.calls]
             ELSE [exc |-> None, value |-> Some(r.value), calls |-> r.calls]

----------------------------------------------------------------------------
(* str.lower() and str.upper() of Python 3 (Unicode case mappings).  A
   character is a one-character string; "sharp-s" is U+00DF, whose lowercase
   is itself and whose uppercase is the two characters "SS". *)

lower_char(c) ==
    CASE c = "A" -> "a"
      [] c = "C" -> "c"
      [] c = "S" -> "s"
      [] OTHER -> c

upper_char(c) ==
    CASE c = "a" -> <<"A">>
      [] c = "c" -> <<"C">>
      [] c = "s" -> <<"S">>
      [] c = "sharp-s" -> <<"S", "S">>
      [] OTHER -> <<c>>

RECURSIVE lower(_)
lower(str) ==
    IF str = <<>> THEN <<>> ELSE <<lower_char(Head(str))>> \o lower(Tail(str))

RECURSIVE upper(_)
upper(str) ==
    IF str = <<>> THEN <<>> ELSE upper_char(Head(str)) \o upper(Tail(str))

\* Lines 39-44 of get_subfeddit_id_by_name, on the list the remote answered:
\* [exc, value].
RECURSIVE get_subfeddit_id_by_name(_, _)
get_subfeddit_id_by_name(name, subfeddits) ==
    IF subfeddits = <<>>
    THEN [exc |-> Some(Exception("ValueError",
                                 <<"Subfeddit '">> \o name \o <<"' not found">>)),
          value |-> None]
    ELSE LET sub == Head(subfeddits)
         IN  IF lower(sub.title) = lower(name)
             THEN [exc |-> None, value |-> Some(sub.id)]
             ELSE get_subfeddit_id_by_name(name, Tail(subfeddits))

----------------------------------------------------------------------------
(* app/main.py *)

\* list.sort(key=...): a stable sort, here by insertion from the left; x goes
\* behind every element whose key is not greater.
RECURSIVE insert_by_polarity(_, _)
insert_by_polarity(x, sorted) ==
    IF sorted = <<>> THEN <<x>>
    ELSE IF Head(sorted).polarity <= x.polarity
         THEN <<Head(sorted)>> \o insert_by_polarity(x, Tail(sorted))
         ELSE <<x>> \o sorted

RECURSIVE sort_by_polarity(_)
sort_by_polarity(cs) ==
    IF cs = <<>> THEN <<>>
    ELSE insert_by_polarity(cs[Len(cs)], sort_by_polarity(SubSeq(cs, 1, Len(cs) - 1)))

sort_by_polarity_reverse_Unstable(cs) == Reverse(sort_by_polarity(cs))

\* list.sort(key=..., reverse=True): the list is reversed, sorted and reversed
\* again, which keeps elements with equal keys in their original order.
sort_by_polarity_reverse(cs) == Reverse(sort_by_polarity(Reverse(cs)))

\* The except clauses of the handler: the HTTPException raised for e.
status_of_AlwaysServerError(e) ==
    [status |-> 500, detail |-> Some(Str(e)), body |-> None]

status_of(e) ==
    IF e.type = "ValueError"
    THEN [status |-> 404, detail |-> Some(Str(e)), body |-> None]
    ELSE [status |-> 500, detail |-> Some(Str(e)), body |-> None]

\* The handler around get_comments: outcome is what get_comments did,
\* [exc, value]; the answer is [status, detail, body].
comments_response(outcome, sort_param) ==
    IF outcome.exc # None
    THEN status_of(outcome.exc[1])
    ELSE LET comments_data == outcome.value[1]
         IN  [status |-> 200,
              detail |-> None,
              body |-> Some(IF sort_param = Some("asc")
                              THEN sort_by_polarity(comments_data)
                            ELSE IF sort_param = Some("desc")
                              THEN sort_by_polarity_reverse(comments_data)
                            ELSE comments_data)]

----------------------------------------------------------------------------
(* The request as a process *)

\* get_comments returns or raises and the handler answers; called are the
\* calls of analyze_sentiment up to the outcome's own.
Finish(outcome, why, called) ==
    /\ pc' = "done"
    /\ analyzed' = called \o outcome.calls
    /\ stopped' = why
    /\ raised' = outcome.exc
    /\ result' = outcome.value
    /\ response' = Some(comments_response(outcome, sort_by_polarity_score))

while_condition_OneMore(cs) == Len(cs) <= limit

\* The condition of the while loop (line 80).
while_condition(cs) == Len(cs) < limit

\* The while test, reached with the running result cs.
WhileTest(cs, called) ==
    IF while_condition(cs)
    THEN /\ pc' = "fetch"
         /\ analyzed' = called
         /\ UNCHANGED <<stopped, raised, result, response>>
    ELSE Finish(after_loop(cs), "limit", called)

Remote == <<forums, source, PAGE_SIZE>>

Request == <<subfeddit, limit, start, end, sort_by_polarity_score>>

\* "list forums" answers: the name is resolved and the first page is requested.
Resolve ==
    /\ pc = "start"
    /\ LET r == get_subfeddit_id_by_name(subfeddit, forums)
       IN  IF r.exc # None
           THEN /\ Finish([exc |-> r.exc, value |-> None, calls |-> <<>>],
                          "unresolved", analyzed)
                /\ UNCHANGED subfeddit_id
           ELSE /\ subfeddit_id' = r.value
                /\ WhileTest(collected_comments, analyzed)
    /\ UNCHANGED <<Remote, Request, skip, comments, idx, collected_comments,
                   requests, consumed>>

HTTPErrorMessages == {<<"All connection attempts failed">>}

\* "list forums" fails: httpx.HTTPError is logged and raised again (lines 32-34).
ResolveFail ==
    /\ pc = "start"
    /\ \E m \in HTTPErrorMessages :
           Finish([exc |-> Some(Exception("HTTPError", m)), value |-> None,
                   calls |-> <<>>],
                  "unresolved", analyzed)
    /\ UNCHANGED <<Remote, Request, subfeddit_id, skip, comments, idx,
                   collected_comments, requests, consumed>>

\* The page of the remote at a cursor, PAGE_SIZE comments at most.
PageAt(cursor) ==
    SubSeq(source, cursor + 1, Min(cursor + PAGE_SIZE, Len(source)))

on_fetch_error_Raise(e, cs) == [exc |-> Some(e), value |-> None, calls |-> <<>>]

\* The except clause of lines 89-91: the error is logged and the loop is left,
\* so lines 108-119 decide what get_comments does.
on_fetch_error(e, cs) == after_loop(cs)

\* The page request fails.
FetchFail ==
    /\ pc = "fetch"
    /\ requests' = Append(requests, skip)
    /\ \E m \in HTTPErrorMessages :
           Finish(on_fetch_error(Exception("HTTPError", m), collected_comments),
                  "failed", analyzed)
    /\ UNCHANGED <<Remote, Request, subfeddit_id, skip, comments, idx,
                   collected_comments, consumed>>

\* The page is empty (lines 94-96): break, then lines 108-119.
FetchEmpty ==
    /\ pc = "fetch"
    /\ PageAt(skip) = <<>>
    /\ requests' = Append(requests, skip)
    /\ comments' = <<>>
    /\ Finish(after_loop(collected_comments), "empty", analyzed)
    /\ UNCHANGED <<Remote, Request, subfeddit_id, skip, idx,
                   collected_comments, consumed>>

\* The page holds comments: the for loop of line 98 starts.
FetchPage ==
    /\ pc = "fetch"
    /\ PageAt(skip) # <<>>
    /\ requests' = Append(requests, skip)
    /\ comments' = PageAt(skip)
    /\ idx' = 1
    /\ pc' = "page"
    /\ UNCHANGED <<Remote, Request, subfeddit_id, skip, collected_comments,
                   consumed, analyzed, stopped, raised, result, response>>

limit_reached_Never(cs) == FALSE

\* The test of line 103, which leaves the for loop.
limit_reached(cs) == Len(cs) >= limit

next_skip_ByOne(cursor) == cursor + 1

\* Line 106.
next_skip(cursor) == cursor + PAGE_SIZE

\* One iteration of the for loop (lines 98-104); after the last one, or on the
\* break of line 104, line 106 and the while test follow.
ProcessComment ==
    /\ pc = "page"
    /\ consumed' = Append(consumed, skip + idx)
    /\ LET comment == comments[idx]
           hit == is_within_time_range(comment, start, end)
           enriched == enrich_with_sentiment(comment)
           called == IF hit THEN Append(analyzed, comment.id) ELSE analyzed
       IN  IF hit /\ enriched.exc # None
           THEN /\ Finish([exc |-> enriched.exc, value |-> None, calls |-> <<>>],
                          "error", called)
                /\ UNCHANGED <<skip, idx, collected_comments>>
           ELSE LET cs == IF hit
                            THEN Append(collected_comments, enriched.value[1])
                            ELSE collected_comments
                IN  /\ collected_comments' = cs
                    /\ IF limit_reached(cs) \/ idx = Len(comments)
                       THEN /\ skip' = next_skip(skip)
                            /\ idx' = idx
                            /\ WhileTest(cs, called)
                       ELSE /\ idx' = idx + 1
                            /\ analyzed' = called
                            /\ UNCHANGED <<skip, pc, stopped, raised, result,
                                           response>>
    /\ UNCHANGED <<Remote, Request, subfeddit_id, comments, requests>>

Next ==
    \/ Resolve
    \/ ResolveFail
    \/ FetchFail
    \/ FetchEmpty
    \/ FetchPage
    \/ ProcessComment

----------------------------------------------------------------------------
(* Inputs *)

Texts == {<<>>, <<" ">>, <<"good">>, <<"bad">>}

Times == 0 .. MaxTime

CommentIds == [i \in 1 .. 40 |-> 1000 + i]

\* The sources of n comments: every text and creation time at every position.
SourcesOfLen(n) ==
    { [i \in 1 .. n |-> [id |-> CommentIds[i], text |-> f[i][1], created_at |-> f[i][2]]] :
        f \in [1 .. n -> Texts \X Times] }

Sources == UNION { SourcesOfLen(n) : n \in 0 .. MaxComments }

Bounds == {None} \cup { Some(t) : t \in Times }

SortParams == {None, Some("asc"), Some("desc")}

Cats == <<"C", "a", "t", "s">>

\* The coroutine before its first await, nothing fetched yet.
InitControl ==
    /\ pc = "start"
    /\ subfeddit_id = None
    /\ skip = 0
    /\ comments = <<>>
    /\ idx = 0
    /\ collected_comments = <<>>
    /\ requests = <<>>
    /\ consumed = <<>>
    /\ analyzed = <<>>
    /\ stopped = "running"
    /\ raised = None
    /\ result = None
    /\ response = None

\* Every small source, page size and query against the forum list [Cats].
InitExplored ==
    /\ forums = <<[id |-> 1, title |-> Cats]>>
    /\ subfeddit = <<"c", "a", "t", "s">>
    /\ source \in Sources
    /\ PAGE_SIZE \in 1 .. MaxPageSize
    /\ limit \in 1 .. MaxLimit
    /\ start \in Bounds
    /\ end \in Bounds
    /\ sort_by_polarity_score \in SortParams

\* Timestamps [100, 200, 300] queried with start 150 and end 250.
InitScenarioRange ==
    /\ forums = <<[id |-> 1, title |-> Cats]>>
    /\ subfeddit = Cats
    /\ source = [i \in 1 .. 3 |->
                   [id |-> CommentIds[i], text |-> <<"good">>, created_at |-> 100 * i]]
    /\ PAGE_SIZE = 25
    /\ limit = 25
    /\ start = Some(150)
    /\ end = Some(250)
    /\ sort_by_polarity_score = None

\* Page size 25, limit 30 and 40 comments, all in range.
InitScenarioPaging ==
    /\ forums = <<[id |-> 1, title |-> Cats]>>
    /\ subfeddit = Cats
    /\ source = [i \in 1 .. 40 |->
                   [id |-> CommentIds[i],
                    text |-> IF i % 2 = 0 THEN <<"good">> ELSE <<"bad">>,
                    created_at |-> i]]
    /\ PAGE_SIZE = 25
    /\ limit = 30
    /\ start = None
    /\ end = None
    /\ sort_by_polarity_score \in SortParams

\* The forum list [Cats] asked for "dogs".
InitScenarioNotFound ==
    /\ forums = <<[id |-> 1, title |-> Cats]>>
    /\ subfeddit = <<"d", "o", "g", "s">>
    /\ source \in SourcesOfLen(1)
    /\ PAGE_SIZE = 25
    /\ limit = 25
    /\ start = None
    /\ end = None
    /\ sort_by_polarity_score \in SortParams

Init ==
    /\ InitControl
    /\ \/ InitExplored
       \/ InitScenarioRange
       \/ InitScenarioPaging
       \/ InitScenarioNotFound

Spec == Init /\ [][Next]_vars

----------------------------------------------------------------------------
(* The resolver against every small forum list *)

TitleChars == {"a", "A", "s", "sharp-s"}

StringsUpTo(chars, n) == UNION { [1 .. k -> chars] : k \in 1 .. n }

Titles == StringsUpTo(TitleChars, MaxTitleLen)

\* The forum lists of up to max forums, their ids in list order.
ForumLists(max) ==
    UNION { { [i \in 1 .. n |-> [id |-> i, title |-> f[i]]] : f \in [1 .. n -> Titles] } :
              n \in 0 .. max }

\* The names asked for: every title as written, lowercased and uppercased.
Names == Titles \cup { lower(t) : t \in Titles } \cup { upper(t) : t \in Titles }

InitForums ==
    /\ InitControl
    /\ forums \in ForumLists(MaxForums)
    /\ subfeddit \in Names
    /\ source = <<[id |-> CommentIds[1], text |-> <<"good">>, created_at |-> 1]>>
    /\ PAGE_SIZE = 25
    /\ limit = 25
    /\ start = None
    /\ end = None
    /\ sort_by_polarity_score = None

SpecForums == InitForums /\ [][Next]_vars

----------------------------------------------------------------------------
(* Vocabulary of the properties *)

Done == pc = "done"

Returned == result # None

Status == response[1].status

Body == response[1].body[1]

\* The range predicate of the data model: both bounds inclusive, a bound is
\* absent only when it is None.
InRange(created_at, s, e) ==
    /\ s = None \/ created_at >= s[1]
    /\ e = None \/ created_at <= e[1]

\* The position in source of the comment with an id (ids are unique).
PositionOf(id) == CHOOSE i \in DOMAIN source : source[i].id = id

RECURSIVE SelectInRange(_)
SelectInRange(cs) ==
    IF cs = <<>> THEN <<>>
    ELSE IF InRange(Head(cs).created_at, start, end)
         THEN <<Head(cs)>> \o SelectInRange(Tail(cs))
         ELSE SelectInRange(Tail(cs))

Ids(cs) == [i \in DOMAIN cs |-> cs[i].id]

RECURSIVE BagOfIds(_)
BagOfIds(cs) ==
    IF cs = <<>> THEN EmptyBag ELSE SetToBag({Head(cs).id}) (+) BagOfIds(Tail(cs))

IsBlank(text) == \A i \in DOMAIN text : text[i] \in Whitespace

IsNoMatch(exc) ==
    exc = Some(Exception("ValueError", NoMatchMessage))

IsNotFound(exc) ==
    exc = Some(Exception("ValueError",
                         <<"Subfeddit '">> \o subfeddit \o <<"' not found">>))

----------------------------------------------------------------------------
(* Properties *)

\* C1: at every point of the retrieval loop the running result holds at most
\* limit comments, and so do the list get_comments returns and the body of the
\* response, whatever the source, the page size and the failures.
C1_AtMostLimit ==
    /\ Len(collected_comments) <= limit
    /\ Returned => Len(result[1]) <= limit
    /\ (Done /\ Status = 200) => Len(Body) <= limit

\* A page that holds more comments in range than the limit was cut at the limit.
C1_Witness ==
    /\ Returned
    /\ Len(result[1]) = limit
    /\ Len(comments) > limit
    /\ \A i \in DOMAIN comments :
           is_within_time_range(comments[i], start, end) /\ ~IsBlank(comments[i].text)

\* C2: every returned comment satisfies the range with both bounds inclusive,
\* a supplied bound of 0 being a bound at the epoch and not an absent one.
C2_ReturnedInRange ==
    Returned =>
        \A i \in DOMAIN result[1] :
            InRange(source[PositionOf(result[1][i].id)].created_at, start, end)

\* C3: when no page fetch fails, get_comments returns exactly the first
\* min(limit, n) comments in range, in source order (with none in range it
\* raises NoMatch).
C3_FirstInRangeInOrder ==
    (Done /\ stopped \in {"limit", "empty", "error"}) =>
        LET want == SelectInRange(source)
            n == Min(limit, Len(want))
        IN  IF n = 0 THEN IsNoMatch(raised)
            ELSE Returned /\ Ids(result[1]) = Ids(SubSeq(want, 1, n))

C5_NoMatchWhenNoneInRange ==
    (Done /\ stopped # "unresolved" /\ SelectInRange(source) = <<>>) =>
        /\ IsNoMatch(raised)
        /\ ~Returned
        /\ stopped \in {"empty", "failed"}
        /\ stopped = "empty" => Len(consumed) = Len(source)

\* C6: an in-range comment with empty or whitespace-only text that the loop
\* has reached raises no error: it is in the running result with polarity 0.0
\* and classification "negative" (unless the limit was reached before it).
C6_BlankTextIsNegative ==
    \A k \in DOMAIN consumed :
        LET comment == source[consumed[k]]
        IN  (IsBlank(comment.text) /\ InRange(comment.created_at, start, end)) =>
                /\ raised = None
                /\ \E i \in DOMAIN collected_comments :
                       /\ collected_comments[i].id = comment.id
                       /\ collected_comments[i].polarity = 0
                       /\ collected_comments[i].classification = "negative"

\* C7: the handler answers 200 exactly when get_comments returned a list; the
\* resolver's NotFound and the aggregator's NoMatch give 404 with their
\* message; every other failure, a transport failure of the resolution
\* included, gives 500 with its message.
C7_StatusOfOutcome ==
    /\ Done <=> response # None
    /\ Done =>
        /\ Status \in {200, 404, 500}
        /\ Status = 200 <=> Returned
        /\ Returned <=> raised = None
        /\ Returned => response[1].detail = None /\ response[1].body # None
        /\ raised # None =>
               /\ response[1].body = None
               /\ IF IsNotFound(raised)
                  THEN /\ Status = 404
                       /\ response[1].detail =
                              Some(<<"Subfeddit '">> \o subfeddit \o <<"' not found">>)
                  ELSE IF IsNoMatch(raised)
                  THEN Status = 404 /\ response[1].detail = Some(NoMatchMessage)
                  ELSE IF raised[1].type = "HTTPError"
                  THEN /\ Status = 500
                       /\ stopped = "unresolved"
                       /\ response[1].detail \in { Some(m) : m \in HTTPErrorMessages }
                  ELSE /\ Status = 500
                       /\ response[1].detail # None
                       /\ response[1].detail[1] # <<>>

\* The forum list could not be fetched.
C7_Witness ==
    /\ Done
    /\ raised # None
    /\ raised[1].type = "HTTPError"
    /\ Status = 500

\* C8: the body of a 200 response is a stable reordering of the list
\* get_comments returned: the same multiset of ids; non-decreasing polarity for
\* asc and non-increasing for desc; comments of equal polarity in retrieval
\* order; the list itself when no sort is asked for.
C8_StableSort ==
    (Done /\ Status = 200) =>
        LET res == result[1]
            PosInRes(id) == CHOOSE i \in DOMAIN res : res[i].id = id
        IN  /\ BagOfIds(Body) = BagOfIds(res)
            /\ Len(Body) = Len(res)
            /\ \A i \in DOMAIN Body : Body[i] = res[PosInRes(Body[i].id)]
            /\ sort_by_polarity_score = None => Body = res
            /\ sort_by_polarity_score = Some("asc") =>
                   \A i, j \in DOMAIN Body :
                       i < j => Body[i].polarity <= Body[j].polarity
            /\ sort_by_polarity_score = Some("desc") =>
                   \A i, j \in DOMAIN Body :
                       i < j => Body[i].polarity >= Body[j].polarity
            /\ \A i, j \in DOMAIN Body :
                   (i < j /\ Body[i].polarity = Body[j].polarity) =>
                       PosInRes(Body[i].id) < PosInRes(Body[j].id)

\* A descending sort that moved comments and had equal polarities to keep in order.
C8_Witness ==
    /\ Done
    /\ Status = 200
    /\ sort_by_polarity_score = Some("desc")
    /\ Body # result[1]
    /\ \E i, j \in DOMAIN Body : i < j /\ Body[i].polarity = Body[j].polarity

\* C9: resolving a forum's title as written, lowercased or uppercased yields
\* the id that resolving the title itself yields; the id is that of the first
\* forum whose title matches, and without a match NotFound is raised.
C9_CaseInsensitiveResolve ==
    (pc # "start" /\ ~(stopped = "unresolved" /\ raised[1].type = "HTTPError")) =>
        /\ \A i \in DOMAIN forums :
               subfeddit \in {forums[i].title, lower(forums[i].title),
                              upper(forums[i].title)} =>
                   /\ subfeddit_id # None
                   /\ subfeddit_id =
                          get_subfeddit_id_by_name(forums[i].title, forums).value
        /\ subfeddit_id # None =>
               \E i \in DOMAIN forums :
                   /\ forums[i].id = subfeddit_id[1]
                   /\ lower(forums[i].title) = lower(subfeddit)
                   /\ \A j \in 1 .. i - 1 : lower(forums[j].title) # lower(subfeddit)
        /\ subfeddit_id = None =>
               /\ IsNotFound(raised)
               /\ \A i \in DOMAIN forums : lower(forums[i].title) # lower(subfeddit)

\* C10: the page requests are made at the cursors 0, P, 2P, ... in this order,
\* none once the running result holds limit comments; with page size 25, limit
\* 30 and 40 comments in range, a run without a failed fetch makes the two
\* requests 0 and 25, looks at the first 30 comments and returns them.
C10_PagesInOrder ==
    /\ \A i \in DOMAIN requests : requests[i] = (i - 1) * PAGE_SIZE
    /\ pc = "fetch" => Len(collected_comments) < limit
    /\ pc = "fetch" => skip = Len(requests) * PAGE_SIZE
    /\ pc = "page" => skip = (Len(requests) - 1) * PAGE_SIZE
    /\ (Done /\ stopped = "limit" /\ PAGE_SIZE = 25 /\ limit = 30 /\ Len(source) = 40) =>
           /\ requests = <<0, 25>>
           /\ consumed = [i \in 1 .. 30 |-> i]
           /\ Returned
           /\ Ids(result[1]) = Ids(SubSeq(source, 1, 30))
    /\ (PAGE_SIZE = 25 /\ limit = 30 /\ Len(source) = 40 /\ Done) =>
           stopped \in {"limit", "failed", "unresolved"}

\* The scenario ran to its end: the second page was left at its 5th comment.
C10_Witness ==
    /\ Done
    /\ stopped = "limit"
    /\ PAGE_SIZE = 25
    /\ limit = 30
    /\ Len(source) = 40
    /\ idx = 5
    /\ Len(requests) = 2

\* C11: get_comments raises NoMatch only after an empty page was received
\* with nothing collected; a run that a failed page fetch ended raises nothing,
\* also when the fetch failed on the first page or before any comment in range
\* was collected.
C11_NoMatchOnlyOnExhaustion ==
    /\ IsNoMatch(raised) => stopped = "empty" /\ collected_comments = <<>>
    /\ stopped = "failed" => raised = None

\* The number of calls of analyze_sentiment for the comment with an id.
CallsFor(id) == Cardinality({ k \in DOMAIN analyzed : analyzed[k] = id })

\* C12: in one run analyze_sentiment is called exactly once for every comment
\* of the result, and never for a comment the range filter rejected or the
\* loop did not reach; a comment of the result is as it was when appended.
C12_AnalyzedOncePerReturned ==
    /\ \A i \in DOMAIN collected_comments : CallsFor(collected_comments[i].id) = 1
    /\ Returned =>
           /\ result[1] = collected_comments
           /\ \A i \in DOMAIN result[1] : CallsFor(result[1][i].id) = 1
    /\ \A k \in DOMAIN analyzed :
           /\ PositionOf(analyzed[k]) \in { consumed[j] : j \in DOMAIN consumed }
           /\ is_within_time_range(source[PositionOf(analyzed[k])], start, end)

\* What is left of a run: the comments of the source not yet looked at, and the
\* steps up to the next one.
Measure ==
    IF Done THEN 0
    ELSE 3 * (Len(source) - Len(consumed))
         + (CASE pc = "start" -> 3 [] pc = "fetch" -> 2 [] OTHER -> 1)

\* Every step of a run brings its end nearer, whatever the source holds.
EveryStepNearerTheEnd == [][Measure' < Measure /\ Measure' >= 0]_vars

\* C13: before its end a run always has a next step (the answer of the
\* pending remote call, or the next comment of the page); the cursor has advanced by the page
\* size with every completed iteration; the loop ends by the limit being
\* reached, an empty page or a failed page fetch, and get_comments then
\* returns a list or raises NoMatch.
C13_EndsByListOrNoMatch ==
    /\ pc \in {"start", "fetch", "page", "done"}
    /\ pc = "page" => idx \in DOMAIN comments
    /\ pc = "fetch" => skip = Len(requests) * PAGE_SIZE
    /\ (Done /\ stopped # "unresolved") =>
           /\ stopped \in {"limit", "empty", "failed"}
           /\ Returned \/ IsNoMatch(raised)

====
